---- MODULE Spec2Model ----
(***************************************************************************)
(* Structurizr DSL debugger: the error extractor (processDslError), the    *)
(* suggestion matcher (getSuggestionForError) and the file-backed          *)
(* diagnostic log.                                                         *)
(*                                                                         *)
(* A JavaScript string is a sequence of tokens.  A token is either one     *)
(* character the code looks at (":", " ", "(", a digit, a line terminator) *)
(* or a run of other characters that no pattern of the code can cut        *)
(* ("workspace.dsl", "at line", "of", "Unexpected tokens", ...).           *)
(***************************************************************************)
EXTENDS Integers, Sequences, FiniteSets, TLC

VARIABLES
    logFile,    \* the content of CONFIG.dslLogFile
    now,        \* the clock new Date() reads
    listeners,  \* the console listeners attached to the Structurizr page
    pc,         \* the last operation that ran
    parts,      \* the parts the input text was built from
    errorText,  \* the text given to the last processDslError
    ret,        \* what the last processDslError returned
    response,   \* what the last tool handler answered
    level,      \* the level of the last console message
    pre,        \* the log file when the last operation began
    sugIn,      \* the arguments of the last getSuggestionForError
    sugOut,     \* its result
    server,     \* which server of the repository is running
    count,      \* the count given to the last getDslErrors
    fault,      \* how a write to the log file went during the last operation
    handlers,   \* the appends in progress, in the processes that share the log file
    dslFile,    \* the lines of workspace.dsl
    args,       \* the arguments of the last tool call, the answer typed by the user
    history,    \* the diagnostics appended since the log was last emptied
    cursorConfig, \* the content of Cursor's config.json
    backupFile, \* the content of config.json.backup-<time>
    connections, \* the connections map of browser-error-mcp.js
    pageListeners \* the close listeners of the pages: the connectionId each holds

vars ==
    <<logFile, now, listeners, pc, parts, errorText, ret, response, level, pre, sugIn, sugOut,
      server, count, fault, handlers, dslFile, args, history, cursorConfig, backupFile,
      connections, pageListeners>>

\* ------------------------------------------------------------- bounds
MaxFrags == 2
MaxDigits == 2
MaxLog == 2
MaxClock == 2
MaxListeners == 2

\* ------------------------------------------------- characters and strings
LF == "\n"
W == "workspace.dsl"
AL == "at line"
OF == "of"
UT == "Unexpected tokens"

Digits == {"0", "6", "7"}

\* String.prototype.trim strips white space and line terminators.
IsSpace(c) == c \in {" ", LF}

\* The characters the regular expression's `.` does not match.
IsLineTerminator(c) == c = LF

DigitValue(c) == CASE c = "0" -> 0 [] c = "6" -> 6 [] c = "7" -> 7 [] OTHER -> 0

Min(S) == CHOOSE x \in S : \A y \in S : x <= y

\* s.slice(a - 1, b - 1): the tokens at the 1-based positions a .. b-1.
Slice(s, a, b) == SubSeq(s, a, b - 1)

\* The literal lit occurs in s at position p.
LitAt(s, p, lit) ==
    /\ p >= 1
    /\ p + Len(lit) - 1 <= Len(s)
    /\ \A i \in 1..Len(lit) : s[p + i - 1] = lit[i]

\* String.prototype.includes
Includes(s, sub) == \E p \in 1..(Len(s) + 1) : LitAt(s, p, sub)

\* The character classes of the patterns: \s, \d, [^:], [^(] and '.'.
InClass(cls, c) ==
    CASE cls = "space" -> IsSpace(c)
      [] cls = "digit" -> c \in Digits
      [] cls = "notColon" -> c # ":"
      [] cls = "notParen" -> c # "("
      [] OTHER -> ~IsLineTerminator(c)

\* The end (exclusive) of the longest run from p of characters of the class:
\* what a greedy X* or X+ consumes first.
RunEnd(s, p, cls) ==
    IF p > Len(s) THEN p
    ELSE Min({e \in p..(Len(s) + 1) : e = Len(s) + 1 \/ ~InClass(cls, s[e])})

TrimStart(s) == Slice(s, RunEnd(s, 1, "space"), Len(s) + 1)

RECURSIVE TrimEnd(_)
TrimEnd(s) ==
    IF s # <<>> /\ IsSpace(s[Len(s)]) THEN TrimEnd(Slice(s, 1, Len(s))) ELSE s

Trim(s) == TrimEnd(TrimStart(s))

\* Mutant: only the first digit is read.
ParseIntFirstDigit(s) == DigitValue(s[1])

\* parseInt(digits, 10) on a non-empty string of decimal digits.
RECURSIVE ParseIntFrom(_, _, _)
ParseIntFrom(s, i, acc) ==
    IF i > Len(s) \/ s[i] \notin Digits THEN acc
    ELSE ParseIntFrom(s, i + 1, acc * 10 + DigitValue(s[i]))

ParseInt(s) == ParseIntFrom(s, 1, 0)

\* ------------------------------------------------ suggestion matcher
DynamicViewSuggestion ==
    [issue |-> "The dynamic view syntax is incorrect. It needs a container/component identifier AND key.",
     fix |-> "Correct syntax: 'dynamic ContainerName ErrorHandlingFlow {'\nAlternatively: 'dynamic ComponentName ErrorHandlingFlow {'"]

RelationshipSuggestion ==
    [issue |-> "There's a relationship defined between components that doesn't exist or has incorrect syntax",
     fix |-> "Check the relationship syntax and ensure both components exist: '<source> -> <destination> \"description\"'"]

GenericSuggestion ==
    [issue |-> "Syntax error in the DSL file",
     fix |-> "Check the documentation at https://structurizr.com/dsl for correct syntax"]

UnknownRelationship == <<"Unknown", " ", "relationship">>

\* Mutant: the second rule is tried before the first.
GetSuggestionRuleTwoFirst(message, context) ==
    IF Includes(message, UnknownRelationship) \/ Includes(message, <<"relationship">>)
    THEN RelationshipSuggestion
    ELSE IF Includes(message, <<UT>>) /\ Includes(context, <<"dynamic">>)
         THEN DynamicViewSuggestion
         ELSE GenericSuggestion

\* Mutant: no fallback, the function falls off its end (undefined).
GetSuggestionNoFallback(message, context) ==
    IF Includes(message, <<UT>>) /\ Includes(context, <<"dynamic">>)
    THEN DynamicViewSuggestion
    ELSE IF Includes(message, UnknownRelationship) \/ Includes(message, <<"relationship">>)
         THEN RelationshipSuggestion
         ELSE [issue |-> "undefined", fix |-> "undefined"]

getSuggestionForError(message, context) ==
    IF Includes(message, <<UT>>) /\ Includes(context, <<"dynamic">>)
    THEN DynamicViewSuggestion
    ELSE IF Includes(message, UnknownRelationship) \/ Includes(message, <<"relationship">>)
         THEN RelationshipSuggestion
         ELSE GenericSuggestion

\* ------------------------------------------------------ error extractor
Null == [type |-> "null"]

IsDigit(c) == c \in Digits

\* Mutant: the pattern does not ask for the colon after workspace.dsl.
DslPrefixNoColon == <<W, " ">>

DslPrefix == <<W, ":", " ">>
AtLineLit == <<" ", AL, " ">>
OfLit == <<" ", OF, " ">>

\* Mutant: (\d) instead of (\d+).
DslOkAtOneDigit(s, p, e) ==
    LET d0 == e + 3
        d1 == d0 + 1
        f0 == d1 + 3
        k == RunEnd(s, f0, "notColon")
    IN  /\ LitAt(s, p, <<W, ":", " ">>)
        /\ e >= p + 3
        /\ \A i \in (p + 3)..(e - 1) : ~IsLineTerminator(s[i])
        /\ LitAt(s, e, <<" ", AL, " ">>)
        /\ d0 <= Len(s)
        /\ IsDigit(s[d0])
        /\ LitAt(s, d1, <<" ", OF, " ">>)
        /\ k > f0
        /\ k <= Len(s)

\* /workspace\.dsl: (.*?) at line (\d+) of ([^:]+):(.*)/ tried at position p
\* with group 1 ending before position e.  After group 1 the pattern has one
\* way to go on: \d+ and [^:]+ are each followed by a character outside their
\* class, so only their longest run can match, and (.*) takes the rest of the
\* line.
DslOkAt(s, p, e) ==
    LET d0 == e + Len(AtLineLit)
        d1 == RunEnd(s, d0, "digit")
        f0 == d1 + Len(OfLit)
        k == RunEnd(s, f0, "notColon")
    IN  /\ LitAt(s, p, DslPrefix)
        /\ e >= p + Len(DslPrefix)
        /\ \A i \in (p + Len(DslPrefix))..(e - 1) : ~IsLineTerminator(s[i])
        /\ LitAt(s, e, AtLineLit)
        /\ d1 > d0
        /\ LitAt(s, d1, OfLit)
        /\ k > f0
        /\ k <= Len(s)

\* The four capture groups of the match at p whose group 1 ends before e.
DslGroupsAt(s, p, e) ==
    LET d0 == e + Len(AtLineLit)
        d1 == RunEnd(s, d0, "digit")
        f0 == d1 + Len(OfLit)
        k == RunEnd(s, f0, "notColon")
    IN  [type |-> "match",
         g1 |-> Slice(s, p + Len(DslPrefix), e),
         g2 |-> Slice(s, d0, d1),
         g3 |-> Slice(s, f0, k),
         g4 |-> Slice(s, k + 1, RunEnd(s, k + 1, "dot"))]

DslMatchEnds(s, p) == {e \in p..(Len(s) + 1) : DslOkAt(s, p, e)}

\* errorText.match(...): the leftmost start, and from it the shortest group 1
\* (the lazy quantifier); Null when nothing matches.
DslRegexMatch(s) ==
    LET starts == {p \in 1..Len(s) : LitAt(s, p, DslPrefix) /\ DslMatchEnds(s, p) # {}}
    IN  IF starts = {} THEN Null
        ELSE LET p == Min(starts)
             IN  DslGroupsAt(s, p, Min(DslMatchEnds(s, p)))

\* The simplified server's three patterns (each the leftmost match).
\* /at line (\d+) of ([^:]+):/
SimpleLineOkAt(s, p) ==
    LET d0 == p + 2
        d1 == RunEnd(s, d0, "digit")
        f0 == d1 + Len(OfLit)
        k == RunEnd(s, f0, "notColon")
    IN  /\ LitAt(s, p, <<AL, " ">>)
        /\ d1 > d0
        /\ LitAt(s, d1, OfLit)
        /\ k > f0
        /\ k <= Len(s)

SimpleLineMatch(s) ==
    LET starts == {p \in 1..Len(s) : SimpleLineOkAt(s, p)}
    IN  IF starts = {} THEN Null
        ELSE LET p == Min(starts)
                 d1 == RunEnd(s, p + 2, "digit")
                 f0 == d1 + Len(OfLit)
             IN  [type |-> "match",
                  g1 |-> Slice(s, p + 2, d1),
                  g2 |-> Slice(s, f0, RunEnd(s, f0, "notColon"))]

\* /: ([^:]+)$/ : without the m flag, $ is the end of the input.
SimpleContextMatch(s) ==
    LET starts == {p \in 1..Len(s) :
                      /\ LitAt(s, p, <<":", " ">>)
                      /\ p + 2 <= Len(s)
                      /\ RunEnd(s, p + 2, "notColon") = Len(s) + 1}
    IN  IF starts = {} THEN Null
        ELSE [type |-> "match", g1 |-> Slice(s, Min(starts) + 2, Len(s) + 1)]

\* /workspace\.dsl: ([^(]+)/
SimpleMessageMatch(s) ==
    LET starts == {p \in 1..Len(s) :
                      /\ LitAt(s, p, DslPrefix)
                      /\ RunEnd(s, p + Len(DslPrefix), "notParen") > p + Len(DslPrefix)}
    IN  IF starts = {} THEN Null
        ELSE LET g == Min(starts) + Len(DslPrefix)
             IN  [type |-> "match", g1 |-> Slice(s, g, RunEnd(s, g, "notParen"))]

\* --------------------------------------------------- the log file
\* CONFIG.dslLogFile: absent, holding text that is not JSON, or holding a
\* JSON array of entries.
MissingFile == [kind |-> "missing", entries |-> <<>>]
CorruptFile == [kind |-> "corrupt", entries |-> <<>>]

\* JSON.stringify(entries, null, 2) written by fs.writeFileSync.
JSONStringify(entries) == [kind |-> "array", entries |-> entries]

existsSync(file) == file.kind # "missing"

\* JSON.parse(fs.readFileSync(file)) throws on an absent file and on text
\* that is not JSON.
ReadThrows(file) == file.kind # "array"
JSONParse(file) == file.entries

\* fs.writeFileSync(file, data): "ok" writes the data; "eacces" fails at the
\* open and leaves the file; "enospc" fails after the open has truncated it.
WriteOutcomes == {"ok", "eacces", "enospc"}

writeFileSync(file, data, wr) ==
    CASE wr = "ok" -> data
      [] wr = "eacces" -> file
      [] OTHER -> CorruptFile

\* --------------------------------------------------- processDslError
\* const dslError = {...} built from the match.
DslErrorOf(match, ts) ==
    [timestamp |-> ts,
     type |-> "DSL",
     message |-> Trim(match.g1),
     filename |-> Trim(match.g3),
     line |-> ParseInt(match.g2),
     column |-> 1,
     context |-> Trim(match.g4),
     suggestion |-> getSuggestionForError(Trim(match.g1), Trim(match.g4))]

\* Mutant: the entry takes its column from the line and its tags from the
\* diagnostic's type.
LogEntryOfUntagged(dslError) ==
    [source |-> dslError.type,
     severity |-> "Error",
     message |-> dslError.message,
     file |-> dslError.filename,
     line |-> dslError.line,
     column |-> dslError.line,
     code |-> "dsl-syntax",
     relatedInformation |->
        <<[message |-> <<"Context: ">> \o dslError.context,
           file |-> dslError.filename,
           line |-> dslError.line,
           column |-> dslError.line]>>,
     suggestion |-> dslError.suggestion,
     timestamp |-> dslError.timestamp]

\* The entry pushed to dslErrors.
LogEntryOf(dslError) ==
    [source |-> "Structurizr DSL",
     severity |-> "Error",
     message |-> dslError.message,
     file |-> dslError.filename,
     line |-> dslError.line,
     column |-> dslError.column,
     code |-> "dsl-syntax",
     relatedInformation |->
        <<[message |-> <<"Context: ">> \o dslError.context,
           file |-> dslError.filename,
           line |-> dslError.line,
           column |-> dslError.column]>>,
     suggestion |-> dslError.suggestion,
     timestamp |-> dslError.timestamp]

\* Mutant: the existing entries are not copied into dslErrors.
ExistingErrorsDropped(file) == <<>>

\* dslErrors after the read of the existing log: a failed read is logged and
\* leaves it empty.
ExistingErrors(file) ==
    IF existsSync(file) /\ ~ReadThrows(file) THEN JSONParse(file) ELSE <<>>

\* Mutant: the log is read and written back before the match is looked at.
ProcessDslErrorWriteAlways(text, file, ts, wr) ==
    CHOOSE r \in
        {IF match # Null
         THEN LET dslError == DslErrorOf(match, ts)
                  dslErrors == Append(ExistingErrors(file), LogEntryOf(dslError))
              IN  [threw |-> wr # "ok",
                   value |-> IF wr = "ok" THEN dslError ELSE Null,
                   file |-> writeFileSync(file, JSONStringify(dslErrors), wr)]
         ELSE [threw |-> FALSE, value |-> Null,
               file |-> writeFileSync(file, JSONStringify(ExistingErrors(file)), "ok")]
         : match \in {DslRegexMatch(text)}} : TRUE

\* Mutant: the new entry is put in front of the existing ones (unshift).
ProcessDslErrorUnshift(text, file, ts, wr) ==
    CHOOSE r \in
        {IF match # Null
         THEN LET dslError == DslErrorOf(match, ts)
                  dslErrors == <<LogEntryOf(dslError)>> \o ExistingErrors(file)
              IN  [threw |-> wr # "ok",
                   value |-> IF wr = "ok" THEN dslError ELSE Null,
                   file |-> writeFileSync(file, JSONStringify(dslErrors), wr)]
         ELSE [threw |-> FALSE, value |-> Null, file |-> file]
         : match \in {DslRegexMatch(text)}} : TRUE

\* processDslError(errorText) of the modular server and of
\* browser-error-mcp.js: the value returned (or that it threw) and the log
\* file it leaves.
processDslError(text, file, ts, wr) ==
    CHOOSE r \in
        {IF match # Null
         THEN LET dslError == DslErrorOf(match, ts)
                  dslErrors == Append(ExistingErrors(file), LogEntryOf(dslError))
              IN  [threw |-> wr # "ok",
                   value |-> IF wr = "ok" THEN dslError ELSE Null,
                   file |-> writeFileSync(file, JSONStringify(dslErrors), wr)]
         ELSE [threw |-> FALSE, value |-> Null, file |-> file]
         : match \in {DslRegexMatch(text)}} : TRUE

\* processDslError(errorText) of the simplified server: everything runs in
\* one try block whose catch returns null.
processDslErrorSimple(text, file, ts, wr) ==
    LET lineMatch == SimpleLineMatch(text)
        contextMatch == SimpleContextMatch(text)
        messageMatch == SimpleMessageMatch(text)
    IN  IF lineMatch = Null \/ contextMatch = Null \/ messageMatch = Null
        THEN [threw |-> FALSE, value |-> Null, file |-> file]
        ELSE LET line == ParseInt(lineMatch.g1)
                 error ==
                    [source |-> "Structurizr DSL",
                     severity |-> "Error",
                     message |-> Trim(messageMatch.g1),
                     file |-> lineMatch.g2,
                     line |-> line,
                     column |-> 1,
                     code |-> "dsl-syntax",
                     relatedInformation |->
                        <<[message |-> <<"Context: ">> \o Trim(contextMatch.g1),
                           file |-> lineMatch.g2,
                           line |-> line,
                           column |-> 1]>>,
                     suggestion |-> DynamicViewSuggestion,
                     timestamp |-> ts]
             IN  IF ReadThrows(file)
                 THEN [threw |-> FALSE, value |-> Null, file |-> file]
                 ELSE [threw |-> FALSE,
                       value |-> IF wr = "ok" THEN error ELSE Null,
                       file |-> writeFileSync(file,
                                    JSONStringify(Append(JSONParse(file), error)), wr)]

\* The handler of the processDslError tool: what it answers.
ToolResponse(r) ==
    IF r.threw THEN "Failed to process DSL error"
    ELSE IF r.value # Null THEN "DSL error processed successfully"
         ELSE "Failed to parse DSL error format"

\* --------------------------------------------- getDslErrors, clearDslErrors
\* count: z.number().int().min(1).max(100).default(10)
MinCount == 1
MaxCount == 100
DefaultCount == 10

Max(S) == CHOOSE x \in S : \A y \in S : y <= x

\* Array.prototype.slice(start): a negative start counts from the end, and
\* -0 is 0.
JsSlice(a, start) ==
    LET k == IF start < 0 THEN Max({Len(a) + start, 0}) ELSE Min({start, Len(a)})
    IN  SubSeq(a, k + 1, Len(a))

\* Mutant: a count outside the range is moved into it.
CountSchemaClamps(srv, c) ==
    [ok |-> TRUE,
     count |-> IF srv = "streaming" THEN c ELSE Max({MinCount, Min({c, MaxCount})})]

\* What the tool's input schema makes of the count before the handler runs:
\* the modular server and the monolith refuse a count outside 1..100, the
\* streaming server takes any number.
CountSchema(srv, c) ==
    [ok |-> srv = "streaming" \/ c \in MinCount..MaxCount, count |-> c]

\* Mutant: errors.slice(0, count).
RecentErrorsFirst(errors, c) == SubSeq(errors, 1, Min({c, Len(errors)}))

\* errors.slice(-count)
RecentErrors(errors, c) == JsSlice(errors, 0 - c)

\* The handler of getDslErrors: its answer, whether it holds entries (ok)
\* and the entries.
GetDslErrorsHandler(srv, file, c) ==
    IF srv = "streaming" /\ ~existsSync(file)
    THEN [response |-> "errors", ok |-> TRUE, errors |-> <<>>]
    ELSE IF ReadThrows(file)
         THEN [response |-> "Failed to retrieve DSL errors", ok |-> FALSE, errors |-> <<>>]
         ELSE [response |-> IF srv = "streaming" THEN "errors"
                            ELSE IF RecentErrors(JSONParse(file), c) = <<>>
                                 THEN "No DSL errors found in the log"
                                 ELSE "Found recent DSL errors",
               ok |-> TRUE,
               errors |-> RecentErrors(JSONParse(file), c)]

\* The getDslErrors tool: the schema, then the handler.
getDslErrors(srv, file, c) ==
    IF CountSchema(srv, c).ok
    THEN GetDslErrorsHandler(srv, file, CountSchema(srv, c).count)
    ELSE [response |-> "Invalid arguments for tool getDslErrors", ok |-> FALSE, errors |-> <<>>]

\* Mutant: the log is cleared only when it holds entries that can be read.
ClearDslErrorsIfReadable(srv, file, wr) ==
    IF ReadThrows(file)
    THEN [response |-> "DSL error log cleared", file |-> file]
    ELSE [response |-> IF wr = "ok" THEN "DSL error log cleared"
                       ELSE "Failed to clear DSL error log",
          file |-> writeFileSync(file, JSONStringify(<<>>), wr)]

\* The clearDslErrors tool: '[]' is written over the file; the streaming
\* server leaves an absent file absent.
clearDslErrors(srv, file, wr) ==
    IF srv = "streaming" /\ ~existsSync(file)
    THEN [response |-> "DSL error log cleared", file |-> file]
    ELSE [response |-> IF wr = "ok" THEN "DSL error log cleared"
                       ELSE "Failed to clear DSL error log",
          file |-> writeFileSync(file, JSONStringify(<<>>), wr)]

\* ------------------------------------------------------------ inputs
\* Strings are built from fragments, so that a short bound reaches the long
\* shapes the patterns look for.
EarlyAtLine == <<" ", AL, " ", "7", " ", OF, " ", "x">>

Frags ==
    {<<"x">>, <<" ">>, <<LF>>, <<":">>, <<UT>>, UnknownRelationship,
     <<UT, " ">> \o UnknownRelationship, <<"dynamic">>, EarlyAtLine}

\* The file paths tried with every message and context.
FileStrings ==
    {<<>>, <<"x">>, <<" ", "x", " ">>, <<"x", ":", "x">>, <<":", "x">>}

RECURSIVE FragStrings(_)
FragStrings(k) ==
    IF k = 0 THEN {<<>>}
    ELSE {a \o b : a \in FragStrings(k - 1), b \in Frags}

RECURSIVE DigitStrings(_)
DigitStrings(k) ==
    IF k = 0 THEN {<<>>}
    ELSE {a \o <<b>> : a \in DigitStrings(k - 1), b \in {"0", "7"}}

Kinds == {"shaped", "junk", "nocolon", "noprefix", "noatline"}

KindCost(kind) == IF kind = "shaped" THEN 0 ELSE 1

FragStringsUpTo(k) == UNION {FragStrings(i) : i \in 0..k}

\* message, line digits, file path and context, and how the text is built
\* from them; message, context and the extra digits cost at most MaxFrags.
PartsOf(kind, d) ==
    LET budget == MaxFrags - (d - 1) - KindCost(kind)
    IN  UNION {
            {[kind |-> kind, m |-> m, n |-> n, f |-> f, c |-> c] :
                m \in FragStrings(i), f \in FileStrings,
                c \in FragStringsUpTo(budget - i), n \in DigitStrings(d)}
            : i \in 0..budget}

\* The parts with line numbers of up to maxDigits digits.
PartsSet(maxDigits) == UNION {PartsOf(kind, d) : kind \in Kinds, d \in 1..maxDigits}

\* Scenario 1 of the specification, the text both servers process at startup.
Scenario1 ==
    [kind |-> "shaped",
     m |-> <<UT, " ", "(", "expected", ":", " ",
             "include, exclude, autolayout, default, animation, title, description, properties",
             ")">>,
     n |-> <<"7", "7", "6">>,
     f |-> <<"/usr/local/structurizr/", W>>,
     c |-> <<" ", "dynamic", " ", "\"ErrorHandlingFlow\"", " ", "{">>]

\* Scenario 2 of the specification: Unknown relationship in the message.
RelationshipParts ==
    [kind |-> "shaped", m |-> UnknownRelationship, n |-> <<"7">>,
     f |-> <<"x">>, c |-> <<" ", "x">>]

\* How the texts of the expected shape begin.
ShapePrefix == <<W, ":", " ">>

TextTail(p) == p.n \o OfLit \o p.f \o <<":">> \o p.c

TextOf(p) ==
    CASE p.kind = "raw" -> p.m
      [] p.kind = "shaped" -> ShapePrefix \o p.m \o AtLineLit \o TextTail(p)
      [] p.kind = "junk" -> <<"x">> \o ShapePrefix \o p.m \o AtLineLit \o TextTail(p)
      [] p.kind = "nocolon" -> <<W, " ">> \o p.m \o AtLineLit \o TextTail(p)
      [] p.kind = "noprefix" -> p.m \o AtLineLit \o TextTail(p)
      [] OTHER -> ShapePrefix \o p.m \o <<" ">> \o TextTail(p)

\* ------------------------------------------------- the extractor alone
\* What the tools of the log leave alone: workspace.dsl, Cursor's
\* config.json and its backup, the connections map.
WorkspaceDsl == <<"workspace {", "}">>
NoArgs == [tool |-> "none"]
NoConfig == [kind |-> "missing", keys |-> <<>>]
NoConnections == [id \in {} |-> TRUE]

NoParts == [kind |-> "raw", m |-> <<>>, n |-> <<>>, f |-> <<>>, c |-> <<>>]
NoReturn == [threw |-> FALSE, value |-> Null]
NoSuggestInput == [message |-> <<>>, context |-> <<>>]

InitExtract ==
    /\ parts \in PartsSet(MaxDigits) \cup {Scenario1, RelationshipParts}
    /\ errorText = TextOf(parts)
    /\ logFile \in {JSONStringify(<<>>), CorruptFile}
    /\ pre = logFile
    /\ now = 0
    /\ listeners = 0
    /\ pc = "input"
    /\ ret = NoReturn
    /\ response = ""
    /\ level = ""
    /\ sugIn = NoSuggestInput
    /\ sugOut = Null
    /\ server = "modular"
    /\ count = 0
    /\ fault = "ok"
    /\ handlers = <<>>
    /\ dslFile = WorkspaceDsl
    /\ args = NoArgs
    /\ history = <<>>
    /\ cursorConfig = NoConfig
    /\ backupFile = NoConfig
    /\ connections = NoConnections
    /\ pageListeners = NoConnections

\* One call of processDslError on reliable storage.
ExtractMain ==
    /\ pc = "input"
    /\ \E r \in {processDslError(errorText, logFile, now, "ok")} :
           /\ ret' = [threw |-> r.threw, value |-> r.value]
           /\ logFile' = r.file
    /\ pre' = logFile
    /\ pc' = "main"
    /\ UNCHANGED <<now, listeners, parts, errorText, response, level, sugIn, sugOut, server, count, fault, handlers,
                       dslFile, args, history, cursorConfig, backupFile, connections, pageListeners>>

\* One call of the simplified server's processDslError.
ExtractSimple ==
    /\ pc = "input"
    /\ \E r \in {processDslErrorSimple(errorText, logFile, now, "ok")} :
           /\ ret' = [threw |-> r.threw, value |-> r.value]
           /\ logFile' = r.file
    /\ pre' = logFile
    /\ pc' = "simple"
    /\ UNCHANGED <<now, listeners, parts, errorText, response, level, sugIn, sugOut, server, count, fault, handlers,
                       dslFile, args, history, cursorConfig, backupFile, connections, pageListeners>>

NextExtract == ExtractMain \/ ExtractSimple

SpecExtract == InitExtract /\ [][NextExtract]_vars

\* --------------------------------------------- the suggestion matcher alone
SuggestFrags ==
    {<<"x">>, <<" ">>, <<UT>>, <<"Unknown">>, UnknownRelationship, <<"relationship">>,
     <<"dynamic">>}

RECURSIVE SuggestStrings(_)
SuggestStrings(k) ==
    IF k = 0 THEN {<<>>}
    ELSE SuggestStrings(k - 1) \cup
         {a \o b : a \in SuggestStrings(k - 1), b \in SuggestFrags}

InitSuggest ==
    /\ sugIn \in [message : SuggestStrings(MaxFrags), context : SuggestStrings(MaxFrags)]
    /\ sugOut = Null
    /\ server = "modular"
    /\ count = 0
    /\ fault = "ok"
    /\ handlers = <<>>
    /\ dslFile = WorkspaceDsl
    /\ args = NoArgs
    /\ history = <<>>
    /\ cursorConfig = NoConfig
    /\ backupFile = NoConfig
    /\ connections = NoConnections
    /\ pageListeners = NoConnections
    /\ pc = "input"
    /\ parts = NoParts
    /\ errorText = <<>>
    /\ logFile = JSONStringify(<<>>)
    /\ pre = logFile
    /\ now = 0
    /\ listeners = 0
    /\ ret = NoReturn
    /\ response = ""
    /\ level = ""

Suggest ==
    /\ pc = "input"
    /\ sugOut' = getSuggestionForError(sugIn.message, sugIn.context)
    /\ pc' = "suggested"
    /\ UNCHANGED <<logFile, now, listeners, parts, errorText, ret, response, level, pre, sugIn, server, count, fault, handlers,
                       dslFile, args, history, cursorConfig, backupFile, connections, pageListeners>>

NextSuggest == Suggest

SpecSuggest == InitSuggest /\ [][NextSuggest]_vars

\* ------------------------------------------------------- the server
\* "some random non-matching text" and a workspace.dsl error of another shape.
RawParts(text) == [kind |-> "raw", m |-> text, n |-> <<>>, f |-> <<>>, c |-> <<>>]
RandomText == <<"some random non-matching text">>
OtherShapeText == <<W, ":", " ", "x", " ", AL, " ", "7">>

ServerParts ==
    {Scenario1, RelationshipParts, RawParts(RandomText), RawParts(OtherShapeText)}

\* After the start-up code (it writes '[]' when the file is absent) the file
\* holds an array or whatever text was there; another process may remove it.
Init ==
    /\ logFile \in {JSONStringify(<<>>), CorruptFile, MissingFile}
    /\ pre = logFile
    /\ now = 0
    /\ listeners = 0
    /\ pc = "start"
    /\ parts = NoParts
    /\ errorText = <<>>
    /\ ret = NoReturn
    /\ response = ""
    /\ level = ""
    /\ sugIn = NoSuggestInput
    /\ sugOut = Null
    /\ server \in {"modular", "monolith"}
    /\ count = 0
    /\ fault = "ok"
    /\ handlers = <<>>
    /\ dslFile = WorkspaceDsl
    /\ args = NoArgs
    /\ history = <<>>
    /\ cursorConfig = NoConfig
    /\ backupFile = NoConfig
    /\ connections = NoConnections
    /\ pageListeners = NoConnections

Room(n) == Len(logFile.entries) + n <= MaxLog

\* The processDslError tool.
ToolProcessDslError ==
    \E p \in ServerParts, wr \in WriteOutcomes :
        /\ Room(1)
        /\ \E r \in {processDslError(TextOf(p), logFile, now, wr)} :
               /\ ret' = [threw |-> r.threw, value |-> r.value]
               /\ response' = ToolResponse(r)
               /\ logFile' = r.file
        /\ parts' = p
        /\ errorText' = TextOf(p)
        /\ pre' = logFile
        /\ fault' = wr
        /\ pc' = "tool"
        /\ UNCHANGED <<now, listeners, level, sugIn, sugOut, server, count, handlers,
                       dslFile, args, history, cursorConfig, backupFile, connections, pageListeners>>

\* connectToBrowser / launchBrowser reaching page.on('console', ...): every
\* successful call attaches one more listener.
ConnectToBrowser ==
    /\ listeners < MaxListeners
    /\ listeners' = listeners + 1
    /\ pc' = "connect"
    /\ response' = "Connected to Structurizr page"
    /\ pre' = logFile
    /\ UNCHANGED <<logFile, now, parts, errorText, ret, level, sugIn, sugOut, server, count, fault, handlers,
                       dslFile, args, history, cursorConfig, backupFile, connections, pageListeners>>

\* The listener of the modular server's connectToBrowser and launchBrowser
\* tools calls processDslError, which their modules neither define nor import
\* (it is local to the module of the processDslError tool): the call throws a
\* ReferenceError before anything is read or written.
ListenerThrowsReferenceError(srv) == srv = "modular"

\* Mutant: the listener attached to the page runs on every message.
ListenerActsAlways(lvl, text) == TRUE

\* if (message.type() === 'error' && message.text().includes('workspace.dsl'))
ListenerActs(lvl, text) == lvl = "error" /\ Includes(text, <<W>>)

\* One listener after the other runs on the message; a listener that throws
\* ends the emit.
RECURSIVE EmitConsole(_, _, _, _, _)
EmitConsole(n, text, file, ts, wr) ==
    IF n = 0 THEN [threw |-> FALSE, value |-> Null, file |-> file]
    ELSE CHOOSE out \in
            {IF r.threw \/ n = 1 THEN r ELSE EmitConsole(n - 1, text, r.file, ts, wr)
             : r \in {processDslError(text, file, ts, wr)}} : TRUE

\* A console message of the page, delivered to the listeners attached to it.
ConsoleMessage ==
    \E lvl \in {"error", "log"}, p \in ServerParts, wr \in WriteOutcomes :
        /\ listeners > 0
        /\ Room(listeners)
        /\ \E r \in {IF ~ListenerActs(lvl, TextOf(p))
                     THEN [threw |-> FALSE, value |-> Null, file |-> logFile]
                     ELSE IF ListenerThrowsReferenceError(server)
                          THEN [threw |-> TRUE, value |-> Null, file |-> logFile]
                          ELSE EmitConsole(listeners, TextOf(p), logFile, now, wr)} :
               /\ ret' = [threw |-> r.threw, value |-> r.value]
               /\ logFile' = r.file
        /\ parts' = p
        /\ errorText' = TextOf(p)
        /\ level' = lvl
        /\ fault' = wr
        /\ pre' = logFile
        /\ pc' = "console"
        /\ UNCHANGED <<now, listeners, response, sugIn, sugOut, server, count, handlers,
                       dslFile, args, history, cursorConfig, backupFile, connections, pageListeners>>

\* Time passes.
Tick ==
    /\ now < MaxClock
    /\ now' = now + 1
    /\ UNCHANGED <<logFile, listeners, pc, parts, errorText, ret, response, level, pre, sugIn, sugOut, server, count, fault, handlers,
                       dslFile, args, history, cursorConfig, backupFile, connections, pageListeners>>

Next == ToolProcessDslError \/ ConnectToBrowser \/ ConsoleMessage \/ Tick

Spec == Init /\ [][Next]_vars

\* ------------------------------------------------- the log and its tools
MaxAppends == 3

\* The counts given to getDslErrors; an omitted count is the default.
Counts == {0 - 1, 0, 1, 2, MaxAppends, DefaultCount, MaxCount, MaxCount + 1}

Servers == {"modular", "monolith", "streaming"}

LogParts == {Scenario1, RelationshipParts}

\* The streaming server's processDslError returns dslError without the
\* suggestion and with the whole text; what it writes is the same.
StreamingReturn(r, text) ==
    IF r.value = Null THEN r
    ELSE [r EXCEPT !.value =
            [timestamp |-> r.value.timestamp,
             type |-> "DSL",
             message |-> r.value.message,
             filename |-> r.value.filename,
             line |-> r.value.line,
             column |-> 1,
             context |-> r.value.context,
             fullError |-> text]]

InitLog ==
    /\ logFile \in {JSONStringify(<<>>), CorruptFile, MissingFile}
    /\ server \in Servers
    /\ pre = logFile
    /\ now = 0
    /\ listeners = 0
    /\ pc = "start"
    /\ parts = NoParts
    /\ errorText = <<>>
    /\ ret = NoReturn
    /\ response = ""
    /\ level = ""
    /\ sugIn = NoSuggestInput
    /\ sugOut = Null
    /\ count = 0
    /\ fault = "ok"
    /\ handlers = <<>>
    /\ dslFile = WorkspaceDsl
    /\ args = NoArgs
    /\ history = <<>>
    /\ cursorConfig = NoConfig
    /\ backupFile = NoConfig
    /\ connections = NoConnections
    /\ pageListeners = NoConnections

\* The processDslError tool.
LogAppend ==
    \E p \in LogParts, wr \in WriteOutcomes :
        /\ Len(logFile.entries) < MaxAppends
        /\ \E r \in {processDslError(TextOf(p), logFile, now, wr)} :
               /\ ret' = IF server = "streaming"
                         THEN [threw |-> r.threw, value |-> StreamingReturn(r, TextOf(p)).value]
                         ELSE [threw |-> r.threw, value |-> r.value]
               /\ response' = ToolResponse(r)
               /\ logFile' = r.file
        /\ parts' = p
        /\ errorText' = TextOf(p)
        /\ fault' = wr
        /\ pre' = logFile
        /\ pc' = "tool"
        /\ UNCHANGED <<now, listeners, level, sugIn, sugOut, server, count, handlers,
                       dslFile, args, history, cursorConfig, backupFile, connections, pageListeners>>

\* The getDslErrors tool.
GetDslErrors ==
    \E c \in Counts :
        /\ \E r \in {getDslErrors(server, logFile, c)} :
               /\ ret' = [threw |-> FALSE,
                          value |-> IF r.ok THEN [type |-> "errors", errors |-> r.errors]
                                    ELSE Null]
               /\ response' = r.response
        /\ count' = c
        /\ pre' = logFile
        /\ pc' = "get"
        /\ UNCHANGED <<logFile, now, listeners, parts, errorText, level, sugIn, sugOut,
                       server, fault, handlers,
                       dslFile, args, history, cursorConfig, backupFile, connections, pageListeners>>

\* The clearDslErrors tool.
ClearDslErrors ==
    \E wr \in WriteOutcomes :
        /\ \E r \in {clearDslErrors(server, logFile, wr)} :
               /\ response' = r.response
               /\ logFile' = r.file
        /\ ret' = NoReturn
        /\ fault' = wr
        /\ pre' = logFile
        /\ pc' = "clear"
        /\ UNCHANGED <<now, listeners, parts, errorText, level, sugIn, sugOut,
                       server, count, handlers,
                       dslFile, args, history, cursorConfig, backupFile, connections, pageListeners>>

\* ------------------------------------------------------ fixDslError
\* `${line}`: the decimal digits of a number, with a sign when negative.
DigitChar(d) ==
    CASE d = 0 -> "0" [] d = 1 -> "1" [] d = 2 -> "2" [] d = 3 -> "3" [] d = 4 -> "4"
      [] d = 5 -> "5" [] d = 6 -> "6" [] d = 7 -> "7" [] d = 8 -> "8" [] OTHER -> "9"

RECURSIVE NaturalToString(_)
NaturalToString(n) ==
    IF n < 10 THEN <<DigitChar(n)>>
    ELSE Append(NaturalToString(n \div 10), DigitChar(n % 10))

NumberToString(n) == IF n < 0 THEN <<"-">> \o NaturalToString(0 - n) ELSE NaturalToString(n)

\* line: z.number().int().min(1); the streaming server has z.number().
LineSchema(srv, line) == srv = "streaming" \/ line >= 1

SuggestionNote ==
    "Note: This is a suggestion only. To apply the fix, you should edit the workspace.dsl file manually."

\* Mutant: the handler puts the fix in place of the line of workspace.dsl.
FixDslErrorApplies(srv, line, fix, dsl) ==
    [text |-> <<"Suggested fix for line", " ">> \o NumberToString(line) \o <<":", " ">> \o fix
              \o (IF srv = "streaming" THEN <<>> ELSE <<LF, LF, SuggestionNote>>),
     dsl |-> IF line \in 1..Len(dsl) THEN [dsl EXCEPT ![line] = fix] ELSE Append(dsl, fix)]

\* The handler of fixDslError: the text it answers and the workspace.dsl it
\* leaves.  The streaming server answers the note in a field of its own.
FixDslErrorHandler(srv, line, fix, dsl) ==
    [text |-> <<"Suggested fix for line", " ">> \o NumberToString(line) \o <<":", " ">> \o fix
              \o (IF srv = "streaming" THEN <<>> ELSE <<LF, LF, SuggestionNote>>),
     dsl |-> dsl]

FixLines == {0 - 1, 0, 6, 7, 60, 776}
Fixes == {<<>>, <<"7">>, <<"dynamic", " ", "ContainerName", " ", "ErrorHandlingFlow", " ", "{">>}

\* The fixDslError tool.
FixDslError ==
    \E line \in FixLines, fix \in Fixes :
        /\ IF LineSchema(server, line)
           THEN \E r \in {FixDslErrorHandler(server, line, fix, dslFile)} :
                   /\ ret' = [threw |-> FALSE, value |-> [type |-> "text", text |-> r.text]]
                   /\ dslFile' = r.dsl
                   /\ response' = "Suggested fix"
           ELSE /\ ret' = NoReturn
                /\ dslFile' = dslFile
                /\ response' = "Invalid arguments for tool fixDslError"
        /\ args' = [tool |-> "fixDslError", line |-> line, fix |-> fix]
        /\ pre' = logFile
        /\ pc' = "fix"
        /\ UNCHANGED <<logFile, now, listeners, parts, errorText, level, sugIn, sugOut,
                       server, count, fault, handlers, history, cursorConfig, backupFile,
                       connections, pageListeners>>

\* The log holds the diagnostic of scenario 1, is empty, unreadable or absent.
ScenarioLog ==
    JSONStringify(<<LogEntryOf(DslErrorOf(DslRegexMatch(TextOf(Scenario1)), 0))>>)

InitFix ==
    /\ logFile \in {ScenarioLog, JSONStringify(<<>>), CorruptFile, MissingFile}
    /\ server \in Servers
    /\ pre = logFile
    /\ now = 0
    /\ listeners = 0
    /\ pc = "start"
    /\ parts = NoParts
    /\ errorText = <<>>
    /\ ret = NoReturn
    /\ response = ""
    /\ level = ""
    /\ sugIn = NoSuggestInput
    /\ sugOut = Null
    /\ count = 0
    /\ fault = "ok"
    /\ handlers = <<>>
    /\ dslFile = WorkspaceDsl
    /\ args = NoArgs
    /\ history = <<>>
    /\ cursorConfig = NoConfig
    /\ backupFile = NoConfig
    /\ connections = NoConnections
    /\ pageListeners = NoConnections

NextFix == FixDslError

SpecFix == InitFix /\ [][NextFix]_vars

NextLog == LogAppend \/ GetDslErrors \/ ClearDslErrors

SpecLog == InitLog /\ [][NextLog]_vars

\* ------------------------------------------- the lifecycle of the log
\* What identifies a diagnostic: in the value processDslError returns and in
\* the entry of the log.
ReturnedDiagnostic(dslError) ==
    [message |-> dslError.message, file |-> dslError.filename, line |-> dslError.line,
     timestamp |-> dslError.timestamp]

StoredDiagnostic(entry) ==
    [message |-> entry.message, file |-> entry.file, line |-> entry.line,
     timestamp |-> entry.timestamp]

InitLife ==
    /\ logFile = JSONStringify(<<>>)
    /\ server \in Servers
    /\ history = <<>>
    /\ now = 0
    /\ pre = logFile
    /\ listeners = 0
    /\ pc = "start"
    /\ parts = NoParts
    /\ errorText = <<>>
    /\ ret = NoReturn
    /\ response = ""
    /\ level = ""
    /\ sugIn = NoSuggestInput
    /\ sugOut = Null
    /\ count = 0
    /\ fault = "ok"
    /\ handlers = <<>>
    /\ dslFile = WorkspaceDsl
    /\ args = NoArgs
    /\ cursorConfig = NoConfig
    /\ backupFile = NoConfig
    /\ connections = NoConnections
    /\ pageListeners = NoConnections

\* The processDslError tool, the write succeeding: the diagnostic it answers
\* is remembered.
LifeAppend ==
    \E p \in ServerParts :
        /\ Len(logFile.entries) < MaxAppends
        /\ \E r \in {processDslError(TextOf(p), logFile, now, "ok")} :
               /\ ret' = [threw |-> r.threw, value |-> r.value]
               /\ response' = ToolResponse(r)
               /\ logFile' = r.file
               /\ history' = IF ToolResponse(r) = "DSL error processed successfully"
                             THEN Append(history, ReturnedDiagnostic(r.value))
                             ELSE history
        /\ parts' = p
        /\ errorText' = TextOf(p)
        /\ fault' = "ok"
        /\ pre' = logFile
        /\ pc' = "tool"
        /\ UNCHANGED <<now, listeners, level, sugIn, sugOut, server, count, handlers,
                       dslFile, args, cursorConfig, backupFile, connections, pageListeners>>

\* The getDslErrors tool.
LifeRecent == GetDslErrors

\* The clearDslErrors tool, the write succeeding.
LifeClear ==
    /\ \E r \in {clearDslErrors(server, logFile, "ok")} :
           /\ response' = r.response
           /\ logFile' = r.file
           /\ history' = IF r.response = "DSL error log cleared" THEN <<>> ELSE history
    /\ ret' = NoReturn
    /\ fault' = "ok"
    /\ pre' = logFile
    /\ pc' = "clear"
    /\ UNCHANGED <<now, listeners, parts, errorText, level, sugIn, sugOut, server, count,
                   handlers, dslFile, args, cursorConfig, backupFile, connections, pageListeners>>

NextLife == LifeAppend \/ LifeRecent \/ LifeClear \/ Tick

SpecLife == InitLife /\ [][NextLife]_vars

\* ------------------------------------------------------- start-up
\* The top-level code of a server: the modular server and browser-error-mcp.js
\* write '[]' when the log file is absent; the second server of
\* browser-error-mcp.js then calls processDslError on an example error; its
\* first (streaming) server creates the log directory only.  A write that
\* throws at the top level ends the process.
StartServer(srv, file, ts, wr1, wr2) ==
    IF srv = "streaming" THEN [crashed |-> FALSE, file |-> file]
    ELSE LET created == IF existsSync(file) THEN file
                        ELSE writeFileSync(file, JSONStringify(<<>>), wr1)
         IN  IF ~existsSync(file) /\ wr1 # "ok"
             THEN [crashed |-> TRUE, file |-> created]
             ELSE IF srv = "monolith"
                  THEN CHOOSE out \in
                          {[crashed |-> r.threw, file |-> r.file]
                           : r \in {processDslError(TextOf(Scenario1), created, ts, wr2)}} : TRUE
                  ELSE [crashed |-> FALSE, file |-> created]

InitStart ==
    /\ logFile \in {MissingFile, CorruptFile, JSONStringify(<<>>), ScenarioLog}
    /\ server \in Servers
    /\ now \in 0..MaxClock
    /\ pre = logFile
    /\ listeners = 0
    /\ pc = "boot"
    /\ parts = NoParts
    /\ errorText = <<>>
    /\ ret = NoReturn
    /\ response = ""
    /\ level = ""
    /\ sugIn = NoSuggestInput
    /\ sugOut = Null
    /\ count = 0
    /\ fault = "ok"
    /\ handlers = <<>>
    /\ dslFile = WorkspaceDsl
    /\ args = NoArgs
    /\ history = <<>>
    /\ cursorConfig = NoConfig
    /\ backupFile = NoConfig
    /\ connections = NoConnections
    /\ pageListeners = NoConnections

\* node <server>.js
Startup ==
    \E wr1, wr2 \in WriteOutcomes :
        /\ pc = "boot"
        /\ \E r \in {StartServer(server, logFile, now, wr1, wr2)} :
               /\ logFile' = r.file
               /\ pc' = IF r.crashed THEN "crashed" ELSE "started"
        /\ pre' = logFile
        /\ fault' = IF wr1 # "ok" THEN wr1 ELSE wr2
        /\ UNCHANGED <<now, listeners, parts, errorText, ret, response, level, sugIn, sugOut,
                       server, count, handlers, dslFile, args, history, cursorConfig,
                       backupFile, connections, pageListeners>>

\* The tools of the running server.
StartedAppend == pc \notin {"boot", "crashed"} /\ LogAppend
StartedClear == pc \notin {"boot", "crashed"} /\ ClearDslErrors

NextStart == Startup \/ StartedAppend \/ StartedClear

SpecStart == InitStart /\ [][NextStart]_vars

\* --------------------------------------------- setup-cursor-config.js
\* JSON values: null, a string, an object with its own keys.
JNull == [type |-> "null"]
JString(s) == [type |-> "string", s |-> s]
JObject(fields) == [type |-> "object", fields |-> fields]
NoFields == [k \in {} |-> JNull]

\* {...a, ...b}: the keys of both, those of b winning.
Merge(f, g) == [k \in (DOMAIN f) \cup (DOMAIN g) |-> IF k \in DOMAIN g THEN g[k] ELSE f[k]]

\* ...v in an object literal: the own keys of an object, nothing for null.
Spread(v) == IF v.type = "object" THEN v.fields ELSE NoFields

\* v || {}: null, undefined and the empty string are falsy.
OrEmpty(v) == IF v.type = "null" \/ (v.type = "string" /\ v.s = "") THEN JObject(NoFields) ELSE v

\* mcpConfig.mcpServers
OurName == "structurizr-dsl-debugger"
OurServer == [type |-> "server", command |-> "node", args |-> "structurizr-dsl-debugger-mcp.js"]
McpServers == [k \in {OurName} |-> OurServer]

\* The config file: absent, not JSON, or the text of a JSON value, pretty
\* printed (JSON.stringify(v, null, 2)) or not.
ConfigFile(value, pretty) == [kind |-> "json", value |-> value, pretty |-> pretty]
CorruptConfig == [kind |-> "corrupt", keys |-> <<>>]

\* response.trim().toLowerCase() of the line typed.
ToLowerCase(s) ==
    [i \in 1..Len(s) |-> CASE s[i] = "Y" -> "y" [] s[i] = "E" -> "e" [] s[i] = "S" -> "s"
                           [] OTHER -> s[i]]
SaysYes(answer) == ToLowerCase(Trim(answer)) \in {<<"y">>, <<"y", "e", "s">>}

\* Mutant: the new configuration is written instead of a merged one.
UpdatedConfigReplaces(existingConfig) == JObject([mcpServers |-> JObject(McpServers)])

\* const updatedConfig = {...existingConfig, mcpServers: {...(existingConfig.mcpServers || {}),
\*                                                           ...mcpConfig.mcpServers}}
\* for an existingConfig that is not null.
UpdatedConfig(existingConfig) ==
    LET own == Spread(existingConfig)
        servers == IF "mcpServers" \in DOMAIN own THEN own["mcpServers"] ELSE JNull
    IN  JObject(Merge(own,
            [k \in {"mcpServers"} |-> JObject(Merge(Spread(OrEmpty(servers)), McpServers))]))

\* The stdin callback: the config file and the backup it leaves, and what it
\* prints.  wr1 is the outcome of the write of the backup, wr2 that of the
\* config.
UpdateCursorConfig(config, backup, answer, wr1, wr2) ==
    IF ~SaysYes(answer)
    THEN [config |-> config, backup |-> backup, printed |-> "No changes made"]
    ELSE IF config.kind # "json"
    THEN [config |-> config, backup |-> backup, printed |-> "Error updating Cursor configuration"]
    ELSE LET written == writeFileSync(backup, ConfigFile(config.value, TRUE), wr1)
             saved == IF written = CorruptFile THEN CorruptConfig ELSE written
         IN  IF wr1 # "ok" \/ config.value.type = "null"
             THEN [config |-> config, backup |-> saved,
                   printed |-> "Error updating Cursor configuration"]
             ELSE LET rewritten ==
                          writeFileSync(config, ConfigFile(UpdatedConfig(config.value), TRUE), wr2)
                  IN  [config |-> IF rewritten = CorruptFile THEN CorruptConfig ELSE rewritten,
                       backup |-> saved,
                       printed |-> IF wr2 = "ok"
                                   THEN "Cursor configuration updated successfully!"
                                   ELSE "Error updating Cursor configuration"]

\* The configurations the user may have.
OtherServer == [type |-> "server", command |-> "other", args |-> "x"]
OldServer == [type |-> "server", command |-> "node", args |-> "old.js"]
ServerMaps ==
    {JNull, JObject(NoFields), JObject([k \in {"other"} |-> OtherServer]),
     JObject([k \in {OurName} |-> OldServer]),
     JObject([k \in {"other", OurName} |-> IF k = "other" THEN OtherServer ELSE OldServer])}
ConfigValues ==
    {JNull, JObject(NoFields), JObject([k \in {"theme"} |-> JString("dark")])}
    \cup {JObject([k \in {"mcpServers"} |-> s]) : s \in ServerMaps}
    \cup {JObject([k \in {"theme", "mcpServers"} |-> IF k = "theme" THEN JString("dark") ELSE s])
          : s \in ServerMaps}
Answers ==
    {<<"y">>, <<"Y", LF>>, <<" ", "y", "e", "s", LF>>, <<"Y", "E", "S">>, <<"n", LF>>, <<LF>>,
     <<"y", "e", "a", "h">>}

InitSetup ==
    /\ cursorConfig \in {NoConfig, CorruptConfig}
                        \cup {ConfigFile(v, pretty) : v \in ConfigValues, pretty \in BOOLEAN}
    /\ backupFile = NoConfig
    /\ args = NoArgs
    /\ pc = "start"
    /\ response = ""
    /\ logFile = JSONStringify(<<>>)
    /\ server = "modular"
    /\ pre = logFile
    /\ now = 0
    /\ listeners = 0
    /\ parts = NoParts
    /\ errorText = <<>>
    /\ ret = NoReturn
    /\ level = ""
    /\ sugIn = NoSuggestInput
    /\ sugOut = Null
    /\ count = 0
    /\ fault = "ok"
    /\ handlers = <<>>
    /\ dslFile = WorkspaceDsl
    /\ history = <<>>
    /\ connections = NoConnections
    /\ pageListeners = NoConnections

\* node setup-cursor-config.js, the user typing a line when asked.
SetupCursorConfig ==
    \E answer \in Answers, wr1, wr2 \in WriteOutcomes :
        /\ pc = "start"
        /\ IF cursorConfig.kind = "missing"
           THEN /\ response' = "Could not find Cursor config"
                /\ UNCHANGED <<cursorConfig, backupFile>>
           ELSE \E r \in {UpdateCursorConfig(cursorConfig, backupFile, answer, wr1, wr2)} :
                   /\ cursorConfig' = r.config
                   /\ backupFile' = r.backup
                   /\ response' = r.printed
        /\ args' = [tool |-> "setup", answer |-> answer, before |-> cursorConfig]
        /\ pc' = "setup"
        /\ UNCHANGED <<logFile, now, listeners, parts, errorText, ret, level, pre, sugIn,
                       sugOut, server, count, fault, handlers, dslFile, history, connections, pageListeners>>

NextSetup == SetupCursorConfig

SpecSetup == InitSetup /\ [][NextSetup]_vars

\* ------------------------------- the connections of browser-error-mcp.js
MaxPages == 3
Pages == 1..MaxPages

\* const connectionId = Date.now().toString()
ConnectionId(ms) == NumberToString(ms)

\* map.set(key, value)
MapSet(map, key, value) ==
    [k \in (DOMAIN map) \cup {key} |-> IF k = key THEN value ELSE map[k]]

InitConn ==
    /\ connections = NoConnections
    /\ pageListeners = NoConnections
    /\ now = 0
    /\ pc = "start"
    /\ server = "streaming"
    /\ logFile = JSONStringify(<<>>)
    /\ pre = logFile
    /\ listeners = 0
    /\ parts = NoParts
    /\ errorText = <<>>
    /\ ret = NoReturn
    /\ response = ""
    /\ level = ""
    /\ sugIn = NoSuggestInput
    /\ sugOut = Null
    /\ count = 0
    /\ fault = "ok"
    /\ handlers = <<>>
    /\ dslFile = WorkspaceDsl
    /\ args = NoArgs
    /\ history = <<>>
    /\ cursorConfig = NoConfig
    /\ backupFile = NoConfig

\* setupErrorCapturing(browser, page), called for the page of launchBrowser
\* and for every page of connectToBrowser: the record is stored under the
\* clock's milliseconds and the close listener keeps that id.
SetupErrorCapturing ==
    \E page \in Pages \ DOMAIN pageListeners :
        \E connectionId \in {ConnectionId(now)} :
            /\ connections' = MapSet(connections, connectionId,
                                     [page |-> page, connected |-> TRUE])
            /\ pageListeners' = MapSet(pageListeners, page,
                                       [connectionId |-> connectionId, closed |-> FALSE])
            /\ pc' = "setup"
            /\ UNCHANGED <<logFile, now, listeners, parts, errorText, ret, response, level,
                           pre, sugIn, sugOut, server, count, fault, handlers, dslFile, args,
                           history, cursorConfig, backupFile>>

\* page.on('close', ...): the record under the listener's id is stored again
\* with connected: false.
PageClose ==
    \E page \in DOMAIN pageListeners :
        /\ ~pageListeners[page].closed
        /\ connections' =
              MapSet(connections, pageListeners[page].connectionId,
                     [connections[pageListeners[page].connectionId] EXCEPT !.connected = FALSE])
        /\ pageListeners' = [pageListeners EXCEPT ![page].closed = TRUE]
        /\ pc' = "close"
        /\ UNCHANGED <<logFile, now, listeners, parts, errorText, ret, response, level,
                       pre, sugIn, sugOut, server, count, fault, handlers, dslFile, args,
                       history, cursorConfig, backupFile>>

\* checkBrowserStatus: the number of records.
CheckBrowserStatus ==
    /\ count' = Cardinality(DOMAIN connections)
    /\ response' = "activeConnections"
    /\ pc' = "status"
    /\ UNCHANGED <<logFile, now, listeners, parts, errorText, ret, level, pre, sugIn, sugOut,
                   server, fault, handlers, dslFile, args, history, cursorConfig, backupFile,
                   connections, pageListeners>>

NextConn == SetupErrorCapturing \/ PageClose \/ CheckBrowserStatus \/ Tick

SpecConn == InitConn /\ [][NextConn]_vars

\* ------------------------------------------- appends that share the log
\* The server processes that share CONFIG.dslLogFile, and the calls of
\* processDslError made in them.
NumProcs == 2
MaxHandlers == 3

ProcOf(h) == (h % NumProcs) + 1

\* A call of processDslError: where it is, the dslError it has built and the
\* array dslErrors it holds.
IdleHandler == [st |-> "idle", err |-> Null, buf |-> <<>>]

\* The text the call is given.
HandlerParts(h) == IF h % 2 = 1 THEN Scenario1 ELSE RelationshipParts

InitRace ==
    /\ logFile = JSONStringify(<<>>)
    /\ server = "monolith"
    /\ handlers = [h \in 1..MaxHandlers |-> IdleHandler]
    /\ dslFile = WorkspaceDsl
    /\ args = NoArgs
    /\ history = <<>>
    /\ cursorConfig = NoConfig
    /\ backupFile = NoConfig
    /\ connections = NoConnections
    /\ pageListeners = NoConnections
    /\ pre = logFile
    /\ now = 0
    /\ listeners = 0
    /\ pc = "start"
    /\ parts = NoParts
    /\ errorText = <<>>
    /\ ret = NoReturn
    /\ response = ""
    /\ level = ""
    /\ sugIn = NoSuggestInput
    /\ sugOut = Null
    /\ count = 0
    /\ fault = "ok"

\* Mutant: the handler awaits its read, so that another handler of the same
\* process may start before it has written.
HandlerMayStartAnytime(h) == handlers[h].st = "idle"

\* processDslError runs from its first line to its write without an await
\* or a callback (readFileSync, writeFileSync): the process runs it to
\* completion before it starts another handler.  Another process is not
\* held back.
HandlerMayStart(h) ==
    /\ handlers[h].st = "idle"
    /\ \A g \in DOMAIN handlers :
           (g # h /\ ProcOf(g) = ProcOf(h)) => handlers[g].st \in {"idle", "done"}

\* Mutant: the write reads the file again and appends to what it finds.
WriteBackMerged(file, dslErrors) ==
    JSONStringify(ExistingErrors(file) \o <<dslErrors[Len(dslErrors)]>>)

\* fs.writeFileSync(CONFIG.dslLogFile, JSON.stringify(dslErrors, null, 2)):
\* the whole file is replaced by the array built from the earlier read.
WriteBack(file, dslErrors) == writeFileSync(file, JSONStringify(dslErrors), "ok")

\* The start of an append: the match and the dslError with its timestamp,
\* new Date() read before the log is.
AppendStamp(h) ==
    /\ HandlerMayStart(h)
    /\ handlers' = [handlers EXCEPT ![h] =
          [st |-> "stamped",
           err |-> DslErrorOf(DslRegexMatch(TextOf(HandlerParts(h))), now),
           buf |-> <<>>]]
    /\ parts' = HandlerParts(h)
    /\ errorText' = TextOf(HandlerParts(h))
    /\ pre' = logFile
    /\ pc' = "stamped"
    /\ UNCHANGED <<logFile, now, listeners, ret, response, level, sugIn, sugOut,
                   server, count, fault,
                   dslFile, args, history, cursorConfig, backupFile, connections, pageListeners>>

\* The read of the log and the push.
AppendRead(h) ==
    /\ handlers[h].st = "stamped"
    /\ handlers' = [handlers EXCEPT ![h].st = "read",
                                    ![h].buf = Append(ExistingErrors(logFile),
                                                      LogEntryOf(handlers[h].err))]
    /\ pre' = logFile
    /\ pc' = "read"
    /\ UNCHANGED <<logFile, now, listeners, parts, errorText, ret, response, level, sugIn,
                   sugOut, server, count, fault,
                   dslFile, args, history, cursorConfig, backupFile, connections, pageListeners>>

\* The second half: the write of the whole array.
AppendWrite(h) ==
    /\ handlers[h].st = "read"
    /\ logFile' = WriteBack(logFile, handlers[h].buf)
    /\ handlers' = [handlers EXCEPT ![h].st = "done"]
    /\ pre' = logFile
    /\ pc' = "written"
    /\ UNCHANGED <<now, listeners, parts, errorText, ret, response, level, sugIn, sugOut,
                   server, count, fault,
                       dslFile, args, history, cursorConfig, backupFile, connections, pageListeners>>

NextRace ==
    \/ \E h \in DOMAIN handlers : AppendStamp(h) \/ AppendRead(h) \/ AppendWrite(h)
    \/ Tick

SpecRace == InitRace /\ [][NextRace]_vars

\* ===================================================================
\* Properties
\* ===================================================================
RECURSIVE Pow10(_)
Pow10(k) == IF k = 0 THEN 1 ELSE 10 * Pow10(k - 1)

RECURSIVE PlaceSum(_, _)
PlaceSum(n, i) ==
    IF i > Len(n) THEN 0
    ELSE DigitValue(n[i]) * Pow10(Len(n) - i) + PlaceSum(n, i + 1)

\* The number a string of decimal digits denotes.
DecimalValue(n) == PlaceSum(n, 1)

\* t is s without its leading and trailing white space.
IsTrimOf(s, t) ==
    \E i \in 1..(Len(s) + 1) : \E j \in (i - 1)..Len(s) :
        /\ t = SubSeq(s, i, j)
        /\ \A k \in 1..(i - 1) : IsSpace(s[k])
        /\ \A k \in (j + 1)..Len(s) : IsSpace(s[k])
        /\ t # <<>> => ~IsSpace(t[1]) /\ ~IsSpace(t[Len(t)])

NoLineTerminator(s) == \A i \in 1..Len(s) : s[i] # LF

\* s up to its first line terminator.
FirstLine(s) ==
    IF NoLineTerminator(s) THEN s
    ELSE SubSeq(s, 1, Min({i \in 1..Len(s) : s[i] = LF}) - 1)

Shaped == parts.kind = "shaped"

\* The message holds no line terminator and no " at line ", the file path is
\* not empty and holds no colon.
WellFormedParts ==
    /\ NoLineTerminator(parts.m)
    /\ ~Includes(parts.m, <<" ", AL, " ">>)
    /\ parts.f # <<>>
    /\ ~Includes(parts.f, <<":">>)

DiagnosticMessage == ret.value.message
DiagnosticFile == IF pc = "simple" THEN ret.value.file ELSE ret.value.filename
DiagnosticContext ==
    IF pc = "simple" THEN Tail(ret.value.relatedInformation[1].message)
    ELSE ret.value.context

\* C2: the text built from a message, digits, a file path and a context gives
\* a Diagnostic whose message, file and context are the trimmed message, file
\* path and context.  Stated for well-formed parts (see WellFormedParts)
\* with a message and a one-line context that are not blank, where the text
\* has one reading, and for both processDslError functions the claim is about.
C2_Claim ==
    (/\ pc \in {"main", "simple"}
     /\ Shaped
     /\ WellFormedParts
     /\ Trim(parts.m) # <<>>
     /\ Trim(parts.c) # <<>>
     /\ NoLineTerminator(parts.c)) =>
        /\ ret.value # Null
        /\ IsTrimOf(parts.m, DiagnosticMessage)
        /\ IsTrimOf(parts.f, DiagnosticFile)
        /\ IsTrimOf(parts.c, DiagnosticContext)

\* C3: a text without "workspace.dsl:" or without "at line" gives a parse
\* failure (null): no Diagnostic is returned and the log is not written.
C3_NoDiagnostic ==
    (/\ pc \in {"main", "simple"}
     /\ ~Includes(errorText, <<W, ":">>) \/ ~Includes(errorText, <<AL>>)) =>
        /\ ret.value = Null
        /\ ~ret.threw
        /\ logFile = pre

C3_Witness ==
    /\ pc = "main"
    /\ parts.kind = "nocolon"
    /\ Includes(errorText, <<W>>)
    /\ ~Includes(errorText, <<W, ":">>)
    /\ Includes(errorText, <<AL>>)
    /\ ret.value = Null
    /\ logFile = pre

\* C4: a parse failure leaves the log as it was: after the processDslError
\* tool or a console message whose text does not match the pattern, the log
\* file is what it was before and nothing is returned; nothing is thrown
\* either, but by the modular server's console listener, which throws before
\* it reaches processDslError.
C4_ParseFailureKeepsLog ==
    (/\ pc \in {"tool", "console"}
     /\ parts.kind = "raw" \/ DslRegexMatch(errorText) = Null) =>
        /\ logFile = pre
        /\ ret.value = Null
        /\ ret.threw => (pc = "console" /\ server = "modular")
        /\ pc = "tool" => response = "Failed to parse DSL error format"

C4_Witness ==
    /\ pc = "console"
    /\ level = "error"
    /\ listeners > 0
    /\ errorText = OtherShapeText
    /\ Len(pre.entries) >= 1
    /\ logFile = pre

\* C5: getSuggestionForError returns one of the three fixed pairs for every
\* message and context, the empty strings included.
C5_Total ==
    pc = "suggested" =>
        sugOut \in {DynamicViewSuggestion, RelationshipSuggestion, GenericSuggestion}

C5_Witness ==
    /\ pc = "suggested"
    /\ sugIn.message = <<>>
    /\ sugIn.context = <<>>
    /\ sugOut = GenericSuggestion

\* C6: the dynamic-view pair is returned exactly when the message contains
\* "Unexpected tokens" and the context contains "dynamic", whatever else
\* they contain.
C6_RuleOneFirst ==
    pc = "suggested" =>
        (sugOut = DynamicViewSuggestion <=>
            Includes(sugIn.message, <<UT>>) /\ Includes(sugIn.context, <<"dynamic">>))

C6_Witness ==
    /\ pc = "suggested"
    /\ Includes(sugIn.message, <<UT>>)
    /\ Includes(sugIn.message, UnknownRelationship)
    /\ Includes(sugIn.context, <<"dynamic">>)
    /\ Includes(sugIn.context, <<"relationship">>)
    /\ sugOut = DynamicViewSuggestion

\* C7 as stated: when rule 1 does not apply and the message contains
\* "Unknown relationship" or "relationship", or the context contains
\* "relationship", the relationship pair is returned.
C7_Claim ==
    (/\ pc = "suggested"
     /\ ~(Includes(sugIn.message, <<UT>>) /\ Includes(sugIn.context, <<"dynamic">>))
     /\ \/ Includes(sugIn.message, UnknownRelationship)
        \/ Includes(sugIn.message, <<"relationship">>)
        \/ Includes(sugIn.context, <<"relationship">>)) =>
        sugOut = RelationshipSuggestion

\* C8: a well-formed text whose message contains "Unknown relationship"
\* gives a Diagnostic with the relationship pair.  Stated for the texts rule 1
\* does not apply to (no "Unexpected tokens" in the message), and for both
\* processDslError functions the claim is about.
C8_Claim ==
    (/\ pc \in {"main", "simple"}
     /\ Shaped
     /\ WellFormedParts
     /\ Includes(parts.m, UnknownRelationship)
     /\ ~Includes(parts.m, <<UT>>)
     /\ ret.value # Null) =>
        ret.value.suggestion = RelationshipSuggestion

\* C9: scenario 1 gives line 776, the file /usr/local/structurizr/workspace.dsl,
\* a message that starts with "Unexpected tokens" and the dynamic-view pair.
C9_Scenario1 ==
    (pc = "main" /\ parts = Scenario1) =>
        /\ ret.value # Null
        /\ ret.value.line = 776
        /\ ret.value.filename = <<"/usr/local/structurizr/", W>>
        /\ ret.value.message # <<>>
        /\ ret.value.message[1] = UT
        /\ ret.value.suggestion = DynamicViewSuggestion

C9_Witness ==
    /\ pc = "main"
    /\ parts = Scenario1
    /\ ret.value # Null
    /\ Len(logFile.entries) = 1
    /\ logFile.entries[1].line = 776

\* One call of processDslError returned a Diagnostic.
OneCallSucceeded ==
    \/ pc = "tool" /\ response = "DSL error processed successfully"
    \/ pc = "console" /\ listeners = 1 /\ ret.value # Null

\* C10: when the stored log is readable and holds S, a successful
\* processDslError leaves S followed by one new entry built from the text:
\* the entries of S are kept, in their places.
C10_AppendPostcondition ==
    (OneCallSucceeded /\ pre.kind = "array") =>
        /\ logFile.kind = "array"
        /\ Len(logFile.entries) = Len(pre.entries) + 1
        /\ SubSeq(logFile.entries, 1, Len(pre.entries)) = pre.entries
        /\ LET entry == logFile.entries[Len(logFile.entries)]
           IN  /\ IsTrimOf(parts.m, entry.message)
               /\ IsTrimOf(parts.f, entry.file)
               /\ entry.line = DecimalValue(parts.n)
               /\ entry.relatedInformation[1].message =
                      <<"Context: ">> \o ret.value.context
               /\ IsTrimOf(parts.c, ret.value.context)
               /\ entry.timestamp = ret.value.timestamp
               /\ entry.suggestion = ret.value.suggestion

C10_Witness ==
    /\ pc = "tool"
    /\ response = "DSL error processed successfully"
    /\ pre.kind = "array"
    /\ Len(pre.entries) >= 1
    /\ parts = RelationshipParts
    /\ pre.entries[1].message # ret.value.message

\* The last k entries of the log L, in the order they were appended.
LastEntries(L, k) == [i \in 1..k |-> L[Len(L) - k + i]]

ValidatingServer == server \in {"modular", "monolith"}

\* C11: for a readable log L and a count in 1..100, getDslErrors returns the
\* last min(count, length(L)) entries of L in the order they were appended:
\* never more than count entries, and the whole log when count >= length(L).
C11_RecentEntries ==
    (/\ pc = "get"
     /\ ValidatingServer
     /\ count \in MinCount..MaxCount
     /\ pre.kind = "array") =>
        /\ ret.value # Null
        /\ ret.value.errors = LastEntries(pre.entries, Min({count, Len(pre.entries)}))
        /\ Len(ret.value.errors) <= count
        /\ count >= Len(pre.entries) => ret.value.errors = pre.entries
        /\ logFile = pre

\* Scenario 4: three appends, then count = 2.
C11_Witness ==
    /\ pc = "get"
    /\ ValidatingServer
    /\ count = 2
    /\ Len(pre.entries) = 3
    /\ pre.entries[2] # pre.entries[3]
    /\ ret.value # Null
    /\ ret.value.errors = <<pre.entries[2], pre.entries[3]>>

\* C12: in the server whose getDslErrors takes any number as count, the tool
\* returns at most max(count, 0) entries, also for 0 and negative counts.
C12_Claim ==
    (/\ pc = "get"
     /\ server = "streaming"
     /\ ret.value # Null) =>
        Len(ret.value.errors) <= Max({count, 0})

\* C13 as stated: a count above 100 behaves as count = 100 and returns the
\* last min(100, length) entries.
C13_Original ==
    (/\ pc = "get"
     /\ ValidatingServer
     /\ count > MaxCount
     /\ pre.kind = "array") =>
        /\ ret.value # Null
        /\ ret.value.errors = LastEntries(pre.entries, Min({MaxCount, Len(pre.entries)}))

\* C13 amended: a count above 100 is refused by the input schema of
\* getDslErrors: the handler does not run, no entries are returned and the
\* log is left as it was.
C13_Amended ==
    (/\ pc = "get"
     /\ ValidatingServer
     /\ count > MaxCount) =>
        /\ response = "Invalid arguments for tool getDslErrors"
        /\ ret.value = Null
        /\ logFile = pre

C13_Witness ==
    /\ pc = "get"
    /\ ValidatingServer
    /\ count = MaxCount + 1
    /\ Len(pre.entries) >= 1
    /\ ret.value = Null
    /\ response = "Invalid arguments for tool getDslErrors"

\* The stored sequence is empty: the file holds [] or, in the streaming
\* server (whose tools take an absent file for an empty log), is absent.
LogIsEmpty(file) ==
    \/ file = JSONStringify(<<>>)
    \/ server = "streaming" /\ file = MissingFile

\* C14: a clearDslErrors that answers "cleared" leaves the empty sequence
\* whatever the log held before (entries, no file, text that is not JSON) and
\* also when the call before it was a clearDslErrors; a getDslErrors that
\* follows reports no entries.
C14_ClearIdempotent ==
    [][(pc' = "clear" /\ response' = "DSL error log cleared") =>
            /\ LogIsEmpty(logFile')
            /\ \A c \in MinCount..MaxCount :
                   /\ getDslErrors(server', logFile', c).ok
                   /\ getDslErrors(server', logFile', c).errors = <<>>
            /\ (pc = "clear" /\ response = "DSL error log cleared") =>
                   LogIsEmpty(logFile) /\ logFile' = logFile]_vars

\* A clearDslErrors of a log that is already empty, as the second of two
\* calls in a row is.
C14_Witness ==
    /\ pc = "clear"
    /\ response = "DSL error log cleared"
    /\ pre = JSONStringify(<<>>)
    /\ logFile = JSONStringify(<<>>)
    /\ server = "modular"

\* C19: when the log file holds text that is not a JSON array,
\* processDslError on a well-formed text (scenario 1, scenario 2) succeeds,
\* takes the stored sequence for empty and leaves the log holding the one new
\* diagnostic.
C19_Claim ==
    (/\ pc \in {"main", "simple"}
     /\ parts \in LogParts
     /\ pre = CorruptFile) =>
        /\ ret.value # Null
        /\ ~ret.threw
        /\ logFile.kind = "array"
        /\ Len(logFile.entries) = 1
        /\ logFile.entries[1].line = DecimalValue(parts.n)

\* C20: when the log file is absent or holds text that is not JSON,
\* getDslErrors with a valid count answers as for an empty log: no entries,
\* not a failure.
C20_Claim ==
    (/\ pc = "get"
     /\ count \in MinCount..MaxCount
     /\ pre.kind \in {"missing", "corrupt"}) =>
        /\ ret.value # Null
        /\ ret.value.errors = <<>>
        /\ response = getDslErrors(server, JSONStringify(<<>>), count).response

\* C17: a console message whose level is not "error", or whose text does not
\* contain "workspace.dsl", leaves the log as it was.
C17_OnlyDslErrorsMutate ==
    (/\ pc = "console"
     /\ level # "error" \/ ~Includes(errorText, <<W>>)) =>
        /\ logFile = pre
        /\ ~ret.threw

\* A well-formed DSL error logged at another level while a listener is
\* attached and the log holds an entry.
C17_Witness ==
    /\ pc = "console"
    /\ server = "monolith"
    /\ listeners > 0
    /\ level = "log"
    /\ parts = Scenario1
    /\ fault = "ok"
    /\ Len(pre.entries) >= 1
    /\ logFile = pre

\* C18: once connectToBrowser (or launchBrowser) has succeeded, a console
\* message of level error whose text is a well-formed DSL error gets one
\* Diagnostic for that text appended to the log (the listener runs within the
\* delivery of the message, so the Diagnostic is there when the delivery
\* ends), the storage being writable.
C18_AutoCapture ==
    (/\ pc = "console"
     /\ listeners = 1
     /\ level = "error"
     /\ parts \in LogParts
     /\ fault = "ok") =>
        /\ logFile.kind = "array"
        /\ Len(logFile.entries) = Len(ExistingErrors(pre)) + 1
        /\ IsTrimOf(parts.m, logFile.entries[Len(logFile.entries)].message)

\* The appends that have completed, and those of process q.
Done == {h \in DOMAIN handlers : handlers[h].st = "done"}
Started(q) == {h \in DOMAIN handlers : ProcOf(h) = q /\ handlers[h].st # "idle"}

\* The step in which handler h writes.
Writes(h) == handlers[h].st = "read" /\ handlers'[h].st = "done"

\* C15: the write replaces the whole file by what the writer read earlier plus
\* its own entry, so when the log has grown since that read the entries
\* appended in between are discarded (last writer wins): two appends can both
\* complete and leave one entry.
C15_LastWriterWins ==
    [][\A h \in DOMAIN handlers :
          Writes(h) =>
              /\ logFile'.entries = handlers[h].buf
              /\ Len(logFile.entries) >= Len(handlers[h].buf) =>
                     Len(logFile'.entries) <= Len(logFile.entries)]_vars

\* Two appends of different processes have completed, nothing else has
\* started, and the log holds one entry.
C15_Witness ==
    \E g, h \in DOMAIN handlers :
        /\ ProcOf(g) # ProcOf(h)
        /\ Done = {g, h}
        /\ \A k \in DOMAIN handlers : handlers[k].st \in {"idle", "done"}
        /\ Len(logFile.entries) = 1

\* C16: while one process alone appends to the log, no handler of it starts
\* between another's read and write, and k completed appends have added
\* exactly k entries.
C16_AtomicInProcess ==
    \A q \in 1..NumProcs :
        (\A h \in DOMAIN handlers : handlers[h].st # "idle" => ProcOf(h) = q) =>
            /\ Cardinality({h \in Started(q) : handlers[h].st # "done"}) <= 1
            /\ Len(logFile.entries) = Cardinality(Done)

C16_Witness ==
    \E q \in 1..NumProcs :
        /\ Cardinality(Started(q)) = 2
        /\ Started(q) = Done
        /\ \A h \in DOMAIN handlers : handlers[h].st # "idle" => ProcOf(h) = q
        /\ Len(logFile.entries) = 2

\* A write of the log was attempted by the last call and failed.
WriteFailed ==
    /\ fault # "ok"
    /\ \/ pc = "tool" /\ DslRegexMatch(errorText) # Null
       \/ pc = "clear" /\ ~(server = "streaming" /\ ~existsSync(pre))

FailureResponses == {"Failed to process DSL error", "Failed to clear DSL error log"}

\* C21: when the write of the log fails during processDslError or
\* clearDslErrors, the tool answers with an explicit failure and the stored
\* log is what it was before the call (stated for a log that was readable
\* before the call).
C21_Claim ==
    (WriteFailed /\ ~ReadThrows(pre)) =>
        (response \in FailureResponses /\ logFile = pre)

\* The console listener calls processDslError outside any try block: what the
\* call throws leaves the listener.
EscapedListener == pc = "console" /\ ret.threw

\* C22: every tool invocation and every console-event handler finishes by
\* returning a value or a reported failure; no exception leaves a handler.
C22_Claim ==
    /\ ~EscapedListener
    /\ pc = "tool" => response \in {"DSL error processed successfully",
                                    "Failed to parse DSL error format",
                                    "Failed to process DSL error"}

\* The runs of digits in a text that read as the number n.
EchoesLine(text, n) ==
    \E p \in 1..Len(text) :
        /\ IsDigit(text[p])
        /\ p = 1 \/ ~IsDigit(text[p - 1])
        /\ ParseInt(Slice(text, p, RunEnd(text, p, "digit"))) = n

\* C23: for every line >= 1 and every fix, fixDslError answers a text that
\* holds the line and the fix, and it leaves the log file and workspace.dsl
\* as they were.
C23_Advisory ==
    (pc = "fix" /\ args.line >= 1) =>
        /\ response = "Suggested fix"
        /\ EchoesLine(ret.value.text, args.line)
        /\ Includes(ret.value.text, args.fix)
        /\ logFile = pre
        /\ dslFile = WorkspaceDsl

C23_Witness ==
    /\ pc = "fix"
    /\ args.line = 776
    /\ Len(args.fix) > 1
    /\ Len(logFile.entries) > 0
    /\ server = "modular"

\* C24: in every server, start-up leaves an existing log file as it is, and
\* before the first tool call or console event the log holds no diagnostic
\* that was not there before start-up.
C24_Claim ==
    pc = "started" =>
        /\ existsSync(pre) => logFile = pre
        /\ ExistingErrors(logFile) = ExistingErrors(pre)

\* The diagnostics the log holds, in its order.
LogDiagnostics == [i \in 1..Len(logFile.entries) |-> StoredDiagnostic(logFile.entries[i])]

\* C25: from an empty log, with writes that succeed, after any sequence of
\* processDslError, getDslErrors and clearDslErrors the log is the sequence
\* of the diagnostics answered since the last clear, in the order of the
\* calls; only a clear removes an entry, and none is edited or moved.
C25_LogIsHistory ==
    /\ ~ReadThrows(logFile)
    /\ LogDiagnostics = history

\* Time has passed since the start, two different diagnostics were appended
\* one after the other and getDslErrors has read both.
C25_Witness ==
    /\ pc = "get"
    /\ Len(history) = 2
    /\ history[1].timestamp > 0
    /\ history[1].message # history[2].message
    /\ ret.value # Null
    /\ Len(ret.value.errors) = 2

\* The entry the last call wrote, and the context its related information
\* holds after "Context: ".
WrittenEntry == logFile.entries[Len(logFile.entries)]
EntryContext(entry) ==
    Slice(entry.relatedInformation[1].message, 2, Len(entry.relatedInformation[1].message) + 1)

\* C26: every diagnostic a server appends to the log carries the suggestion
\* getSuggestionForError gives for that diagnostic's message and context.
C26_Claim ==
    (/\ pc \in {"main", "simple"}
     /\ ret.value # Null
     /\ logFile.kind = "array"
     /\ Len(logFile.entries) > 0) =>
        WrittenEntry.suggestion =
            getSuggestionForError(WrittenEntry.message, EntryContext(WrittenEntry))

\* C27: every entry of the log has column 1, also in its related
\* information, source "Structurizr DSL", severity "Error" and code
\* "dsl-syntax", whatever text it was extracted from.
C27_ConstantTags ==
    \A i \in 1..Len(logFile.entries) :
        LET entry == logFile.entries[i]
        IN  /\ entry.column = 1
            /\ Len(entry.relatedInformation) = 1
            /\ entry.relatedInformation[1].column = 1
            /\ entry.source = "Structurizr DSL"
            /\ entry.severity = "Error"
            /\ entry.code = "dsl-syntax"

\* An entry was written for a text whose line is not 1 and that is not the
\* text of scenario 1.
C27_Witness ==
    /\ pc = "main"
    /\ ret.value # Null
    /\ parts # Scenario1
    /\ Len(logFile.entries) = 1
    /\ logFile.entries[1].line > 1

\* The timestamps of the log do not go down along the sequence.
Chronological ==
    \A i, j \in 1..Len(logFile.entries) :
        i < j => logFile.entries[i].timestamp <= logFile.entries[j].timestamp

\* C28 as stated: in every reachable state of the log the timestamps are
\* non-decreasing along the sequence, also when the handlers of several
\* server processes append to the same log.
C28_Original == Chronological

\* C28, amended: while the handlers of one process alone append to a log
\* that started empty, and the clock does not go back, the timestamps are
\* non-decreasing along the sequence.
C28_Amended ==
    \A q \in 1..NumProcs :
        (\A h \in DOMAIN handlers : handlers[h].st # "idle" => ProcOf(h) = q) =>
            Chronological

\* One process has appended two entries, the second later than the first.
C28_Witness ==
    \E q \in 1..NumProcs :
        /\ \A h \in DOMAIN handlers : handlers[h].st # "idle" => ProcOf(h) = q
        /\ Cardinality(Done) = 2
        /\ Len(logFile.entries) = 2
        /\ logFile.entries[1].timestamp < logFile.entries[2].timestamp

\* The lines that answer y or yes.
YesAnswers == {<<"y">>, <<"Y", LF>>, <<" ", "y", "e", "s", LF>>, <<"Y", "E", "S">>}

\* The entries of the mcpServers key of a configuration.
ServersOf(value) ==
    IF value.type = "object" /\ "mcpServers" \in DOMAIN value.fields
    THEN Spread(value.fields["mcpServers"])
    ELSE NoFields

\* C29: when the user answers y or yes and the script reports the update,
\* the config keeps every top-level key it had and every entry of mcpServers
\* other than structurizr-dsl-debugger, which alone is added or replaced;
\* whenever the config file has changed, the backup holds the configuration
\* it had; for any other answer, and when the file cannot be parsed, the
\* config file is what it was.
C29_ConfigPreserved ==
    pc = "setup" =>
        LET before == args.before
        IN  /\ (args.answer \in YesAnswers
                /\ response = "Cursor configuration updated successfully!") =>
                   /\ cursorConfig.kind = "json"
                   /\ cursorConfig.value.type = "object"
                   /\ DOMAIN cursorConfig.value.fields =
                          DOMAIN Spread(before.value) \cup {"mcpServers"}
                   /\ \A k \in DOMAIN Spread(before.value) \ {"mcpServers"} :
                          cursorConfig.value.fields[k] = before.value.fields[k]
                   /\ DOMAIN ServersOf(cursorConfig.value) =
                          DOMAIN ServersOf(before.value) \cup {OurName}
                   /\ \A k \in DOMAIN ServersOf(before.value) \ {OurName} :
                          ServersOf(cursorConfig.value)[k] = ServersOf(before.value)[k]
                   /\ ServersOf(cursorConfig.value)[OurName] = OurServer
            /\ cursorConfig # before =>
                   /\ before.kind = "json"
                   /\ backupFile.kind = "json"
                   /\ backupFile.value = before.value
            /\ (args.answer \notin YesAnswers \/ before.kind # "json") =>
                   cursorConfig = before

\* The user said yes, the config had a theme, another server and an old
\* entry of this server, and it was rewritten.
C29_Witness ==
    /\ pc = "setup"
    /\ args.answer = <<" ", "y", "e", "s", LF>>
    /\ response = "Cursor configuration updated successfully!"
    /\ args.before.kind = "json"
    /\ DOMAIN Spread(args.before.value) = {"theme", "mcpServers"}
    /\ DOMAIN ServersOf(args.before.value) = {"other", OurName}
    /\ cursorConfig # args.before

\* C30: every page given to setupErrorCapturing has a record of its own:
\* after n pages are set up the map holds n records, each page's id leads to
\* the record of that page, and a record says connected = false exactly when
\* its page has closed.
C30_Claim ==
    /\ Cardinality(DOMAIN connections) = Cardinality(DOMAIN pageListeners)
    /\ \A page \in DOMAIN pageListeners :
           /\ pageListeners[page].connectionId \in DOMAIN connections
           /\ connections[pageListeners[page].connectionId].page = page
           /\ connections[pageListeners[page].connectionId].connected
                  = ~pageListeners[page].closed
    /\ pc = "status" => count = Cardinality(DOMAIN pageListeners)

====
